---------------------------- MODULE Spec2Model ----------------------------
(***************************************************************************)
(* Model of the market-analyst agent: the file cache of search results,    *)
(* fetch_search_results, GeminiAgent (build_context_from_search,           *)
(* _call_gemini, ask_market) of gemini_market_agent.py, and the /analyze   *)
(* handler of app.py.                                                      *)
(*                                                                         *)
(* A Python str is the sequence of its pieces.  A piece is one character,   *)
(* or a longer literal of the source taken whole: a message, a label, the  *)
(* name of a finish reason.  The texts that come from outside (API keys,   *)
(* request parameters, fields of search results, the text of the LLM) are  *)
(* sequences of characters, so slicing, strip, lower, replace and the `in` *)
(* test are computed on them as Python computes them.  The literals taken  *)
(* whole hold no "**", no section header and no "PASTE", and neither start *)
(* nor end with a character of one, so no occurrence is lost.              *)
(* Other Python values (None, float, list, dict) are tagged records.       *)
(***************************************************************************)
EXTENDS Integers, Sequences, FiniteSets, TLC

VARIABLES
    GEMINI_API_KEY,  \* module constant read from the environment
    GOOGLE_API_KEY,  \* module constant read from the environment
    GOOGLE_CX,       \* module constant read from the environment
    fs,              \* the files of CACHE_DIR: path -> NoFile or a file
    now,             \* time.time()
    ticks,           \* number of clock advances so far
    stored,          \* history: query -> the last cache_set for it, or Nothing
    obs,             \* history: what the last completed call was given and did
    procs            \* concurrent requests: process -> its position and locals

vars == <<GEMINI_API_KEY, GOOGLE_API_KEY, GOOGLE_CX, fs, now, ticks, stored, obs, procs>>

---------------------------------------------------------------------------
(* Bounds of the model.                                                    *)

\* clock advances in one behaviour
MaxTicks == 2

---------------------------------------------------------------------------
(* Python str operations.                                                  *)

Min(a, b) == IF a < b THEN a ELSE b

\* s[:n]
Take(s, n) == SubSeq(s, 1, Min(n, Len(s)))

\* str.isspace() of one character
IsSpace(c) == c \in {" ", "\n", "\t", "\r"}

\* the least and the greatest element of a non-empty set of integers
SetMin(S) == CHOOSE x \in S : \A y \in S : x <= y
SetMax(S) == CHOOSE x \in S : \A y \in S : x >= y

\* the positions of s that hold no whitespace
NonSpace(s) == {i \in 1..Len(s) : ~IsSpace(s[i])}

\* str.strip()
strip(s) ==
    LET kept == NonSpace(s) IN
    IF kept = {} THEN <<>> ELSE SubSeq(s, SetMin(kept), SetMax(kept))

\* s[i-1:].startswith(sub), i counted from 1
StartsWithAt(s, i, sub) ==
    /\ i + Len(sub) - 1 <= Len(s)
    /\ \A k \in 1..Len(sub) : s[i + k - 1] = sub[k]

\* sub in s
Contains(sub, s) == \E i \in 1..(Len(s) + 1) : StartsWithAt(s, i, sub)

\* the positions from i on where old occurs in s
Occurrences(s, i, old) == {k \in i..Len(s) : StartsWithAt(s, k, old)}

RECURSIVE ReplaceFrom(_, _, _, _)
\* s[i-1:] with the occurrences of old replaced, found from the left one after
\* the end of the other
ReplaceFrom(s, i, old, new) ==
    LET found == Occurrences(s, i, old) IN
    IF found = {} THEN SubSeq(s, i, Len(s))
    ELSE SubSeq(s, i, SetMin(found) - 1) \o new
            \o ReplaceFrom(s, SetMin(found) + Len(old), old, new)

\* s.replace(old, new) for a non-empty old
replace(s, old, new) == ReplaceFrom(s, 1, old, new)

RECURSIVE JoinFrom(_, _, _)
JoinFrom(sep, parts, i) ==
    IF i > Len(parts) THEN <<>>
    ELSE IF i = Len(parts) THEN parts[i]
    ELSE parts[i] \o sep \o JoinFrom(sep, parts, i + 1)

\* sep.join(parts)
join(sep, parts) == JoinFrom(sep, parts, 1)

Digits == <<"0", "1", "2", "3", "4", "5", "6", "7", "8", "9">>

RECURSIVE IntStr(_)
\* str(n) for n >= 0, as the f-string "[{i}]" formats it
IntStr(n) ==
    IF n < 10 THEN <<Digits[n + 1]>>
    ELSE IntStr(n \div 10) \o <<Digits[(n % 10) + 1]>>

UpperCase ==
    <<"A","B","C","D","E","F","G","H","I","J","K","L","M",
      "N","O","P","Q","R","S","T","U","V","W","X","Y","Z">>
LowerCase ==
    <<"a","b","c","d","e","f","g","h","i","j","k","l","m",
      "n","o","p","q","r","s","t","u","v","w","x","y","z">>

\* str.lower()
lower(s) ==
    [i \in 1..Len(s) |->
        IF \E k \in 1..Len(UpperCase) : UpperCase[k] = s[i]
        THEN LowerCase[CHOOSE k \in 1..Len(UpperCase) : UpperCase[k] = s[i]]
        ELSE s[i]]

---------------------------------------------------------------------------
(* Python values.                                                          *)

None == [t |-> "None"]
Str(s) == [t |-> "str", v |-> s]
Float(x) == [t |-> "float", v |-> x]
List(xs) == [t |-> "list", v |-> xs]
\* a dict is the sequence of its <<key, value>> pairs in insertion order
Dict(kvs) == [t |-> "dict", v |-> kvs]

\* bool(x)
Truthy(x) ==
    CASE x.t = "None" -> FALSE
      [] x.t = "str" -> x.v # <<>>
      [] x.t = "float" -> x.v # 0
      [] x.t = "list" -> x.v # <<>>
      [] x.t = "dict" -> x.v # <<>>

\* key in d
HasKey(d, key) == \E i \in 1..Len(d.v) : d.v[i][1] = key

\* d[key], for a key of d
Item(d, key) == d.v[CHOOSE i \in 1..Len(d.v) : d.v[i][1] = key][2]

\* d.get(key, default)
get(d, key, default) == IF HasKey(d, key) THEN Item(d, key) ELSE default

\* x or y
Or(x, y) == IF Truthy(x) THEN x ELSE y

---------------------------------------------------------------------------
(* json.dump and json.load.  A document is the sequence of its tokens; a   *)
(* file that holds only part of a document does not parse.                 *)

Tok(k) == [k |-> k]
TStr(s) == [k |-> "str", v |-> s]
TKey(s) == [k |-> "key", v |-> s]
TNum(x) == [k |-> "num", v |-> x]

RECURSIVE dumps(_), DumpElems(_, _), DumpPairs(_, _)
\* json.dumps(x)
dumps(x) ==
    CASE x.t = "None" -> <<Tok("null")>>
      [] x.t = "str" -> <<TStr(x.v)>>
      [] x.t = "float" -> <<TNum(x.v)>>
      [] x.t = "list" -> <<Tok("[")>> \o DumpElems(x.v, 1) \o <<Tok("]")>>
      [] x.t = "dict" -> <<Tok("{")>> \o DumpPairs(x.v, 1) \o <<Tok("}")>>

DumpElems(xs, i) ==
    IF i > Len(xs) THEN <<>>
    ELSE dumps(xs[i]) \o (IF i < Len(xs) THEN <<Tok(",")>> ELSE <<>>)
            \o DumpElems(xs, i + 1)

DumpPairs(kvs, i) ==
    IF i > Len(kvs) THEN <<>>
    ELSE <<TKey(kvs[i][1]), Tok(":")>> \o dumps(kvs[i][2])
            \o (IF i < Len(kvs) THEN <<Tok(",")>> ELSE <<>>)
            \o DumpPairs(kvs, i + 1)

ParseFail == [ok |-> FALSE]
Parsed(x, n) == [ok |-> TRUE, val |-> x, nxt |-> n]

\* d[key] = val on the pairs of a dict
SetItem(kvs, key, val) ==
    IF \E i \in 1..Len(kvs) : kvs[i][1] = key
    THEN [i \in 1..Len(kvs) |-> IF kvs[i][1] = key THEN <<key, val>> ELSE kvs[i]]
    ELSE Append(kvs, <<key, val>>)

RECURSIVE ParseValue(_, _), ParseElems(_, _, _), ParsePairs(_, _, _)
\* the JSON value that starts at token i
ParseValue(toks, i) ==
    IF i > Len(toks) THEN ParseFail
    ELSE CASE toks[i].k = "null" -> Parsed(None, i + 1)
           [] toks[i].k = "str" -> Parsed(Str(toks[i].v), i + 1)
           [] toks[i].k = "num" -> Parsed(Float(toks[i].v), i + 1)
           [] toks[i].k = "[" ->
                IF i + 1 <= Len(toks) /\ toks[i + 1].k = "]"
                THEN Parsed(List(<<>>), i + 2)
                ELSE ParseElems(toks, i + 1, <<>>)
           [] toks[i].k = "{" ->
                IF i + 1 <= Len(toks) /\ toks[i + 1].k = "}"
                THEN Parsed(Dict(<<>>), i + 2)
                ELSE ParsePairs(toks, i + 1, <<>>)
           [] OTHER -> ParseFail

ParseElems(toks, i, acc) ==
    LET r == ParseValue(toks, i) IN
    IF ~r.ok \/ r.nxt > Len(toks) THEN ParseFail
    ELSE IF toks[r.nxt].k = "," THEN ParseElems(toks, r.nxt + 1, Append(acc, r.val))
    ELSE IF toks[r.nxt].k = "]" THEN Parsed(List(Append(acc, r.val)), r.nxt + 1)
    ELSE ParseFail

ParsePairs(toks, i, acc) ==
    IF i + 1 > Len(toks) \/ toks[i].k # "key" \/ toks[i + 1].k # ":" THEN ParseFail
    ELSE LET r == ParseValue(toks, i + 2) IN
         IF ~r.ok \/ r.nxt > Len(toks) THEN ParseFail
         ELSE IF toks[r.nxt].k = ","
              THEN ParsePairs(toks, r.nxt + 1, SetItem(acc, toks[i].v, r.val))
         ELSE IF toks[r.nxt].k = "}"
              THEN Parsed(Dict(SetItem(acc, toks[i].v, r.val)), r.nxt + 1)
         ELSE ParseFail

\* json.loads(toks): the value, or not ok for a JSONDecodeError (no document, a
\* partial one, or data after it)
loads(toks) ==
    LET r == ParseValue(toks, 1) IN
    IF r.ok /\ r.nxt = Len(toks) + 1 THEN [ok |-> TRUE, val |-> r.val] ELSE ParseFail

---------------------------------------------------------------------------
(* What a call does: return a value or raise.                              *)

Return(v) == [raised |-> FALSE, val |-> v]
Raise(e) == [raised |-> TRUE, exc |-> e]

---------------------------------------------------------------------------
(* String literals of the source.                                          *)

MSG_NO_CANDIDATES == <<"(The API returned no candidates. This may be due to a temporary issue.)">>
MSG_SAFETY ==
    <<"(Agent response was blocked by safety filters. Try again, or use the ",
      "'--no-search' flag.)">>
MSG_RECITATION ==
    <<"(Agent response was blocked due to potential data recitation. Try modifying your ",
      "query.)">>
MSG_MAX_TOKENS ==
    <<"(Generation stopped due to hitting the output token limit. The analysis is ",
      "incomplete. Consider increasing the max_output_tokens.)">>
MSG_NO_TEXT_PRE == <<"(Generation finished with reason: ">>
MSG_NO_TEXT_POST == <<". No text was generated.)">>
MSG_ERROR_PRE == <<"(Error calling Gemini API: ">>
MSG_ERROR_POST == <<")">>
MSG_NO_RESULTS == <<"(No search results found.)">>
MSG_SEARCH_FAILED == <<"(Warning: search failed. Analysis will use general knowledge.)">>
UM_QUERY == <<"User query: ">>
UM_USE == <<"Use the following RECENT NEWS SNIPPETS as grounding:\n">>
UM_FOLLOW ==
    <<"Follow the output format in the system instruction. If sources are insufficient, ",
      "say so.">>
SNIPPET_LBL == <<"Snippet: ">>
URL_LBL == <<"URL: ">>
DEFAULT_QUERY == <<"Ghost Kitchen Market US Strategy">>
SAFETY == <<"SAFETY">>
RECITATION == <<"RECITATION">>
MAX_OUTPUT_TOKENS == <<"MAX_OUTPUT_TOKENS">>

PASTE ==
    <<"P","A","S","T","E">>
BOLD ==
    <<"*","*">>
HDR1 ==
    <<"1",")"," ","E","x","e","c","u","t","i","v","e"," ","S","u","m","m","a","r","y">>
HDR2 ==
    <<"2",")"," ","K","e","y"," ","F","a","c","t","s">>
HDR3 ==
    <<"3",")"," ","S","W","O","T">>
HDR4 ==
    <<"4",")"," ","T","o","p"," ","3"," ","S","t","r","a","t","e","g","i","c"," ","R","e","c",
      "o","m","m","e","n","d","a","t","i","o","n","s">>
HDR5 ==
    <<"5",")"," ","S","o","u","r","c","e","s">>
TRUE_WORD ==
    <<"t","r","u","e">>
T_WORD ==
    <<"t">>
ONE_WORD ==
    <<"1">>
FALSE_WORD ==
    <<"f","a","l","s","e">>
NEWLINE == <<"\n">>

\* the three values of the no-search parameter that switch the search off
NO_SEARCH_VALUES == {TRUE_WORD, T_WORD, ONE_WORD}

CACHE_DIR == ".search_cache"
SEARCH_RESULTS == 2
TTL == 3600
MAX_NUM == 10
TITLE_CHARS == 200
SNIPPET_CHARS == 400

---------------------------------------------------------------------------
(* The files of CACHE_DIR.                                                 *)

NoFile == [exists |-> FALSE]
File(content, mtime) == [exists |-> TRUE, content |-> content, mtime |-> mtime]

\* hashlib.sha1(q.encode("utf-8")).hexdigest(): the digest of q, a term that two
\* queries share only if they are equal
sha1_hexdigest(q) == [sha1 |-> q]

_cache_key(q) == [dir |-> CACHE_DIR, name |-> sha1_hexdigest(q), ext |-> ".json"]

\* cache_get with an entry of exactly the TTL still served
cache_get_inclusive(files, q, t) ==
    LET path == _cache_key(q) IN
    IF files[path].exists /\ t - files[path].mtime <= TTL
    THEN LET doc == loads(files[path].content) IN
         IF doc.ok THEN Return(doc.val) ELSE Raise("JSONDecodeError")
    ELSE Return(None)

\* cache_get(q) at time t on the files: a fresh entry is loaded, and json.load may
\* raise; anything else is None
cache_get(files, q, t) ==
    LET path == _cache_key(q) IN
    IF files[path].exists
    THEN LET age == t - files[path].mtime IN
         IF age < TTL
         THEN LET doc == loads(files[path].content) IN
              IF doc.ok THEN Return(doc.val) ELSE Raise("JSONDecodeError")
         ELSE Return(None)
    ELSE Return(None)

\* cache_set(q, data) at time t, run to its end with no other writer: the file
\* holds the whole document
cache_set(files, q, data, t) ==
    [files EXCEPT ![_cache_key(q)] = File(dumps(data), t)]

---------------------------------------------------------------------------
(* fetch_search_results.                                                   *)

\* the test without its placeholder part
UnconfiguredUnsetOnly(key) == key = <<>>

\* not KEY or "PASTE" in KEY
Unconfigured(key) == key = <<>> \/ Contains(PASTE, key)

\* the record built from one item of the provider's answer
SearchRecord(it) ==
    Dict(<< <<"title", get(it, "title", None)>>,
            <<"snippet", get(it, "snippet", None)>>,
            <<"link", get(it, "link", None)>>,
            <<"raw", it>> >>)

\* the parameters of the GET request
RequestParams(key, cx, query, num) ==
    [key |-> key, cx |-> cx, q |-> query, num |-> Min(num, MAX_NUM)]

\* The part of fetch_search_results after the request was answered by http:
\* raise_for_status, resp.json(), the loop over the items.  The result is what
\* is raised, or the normalised items.
ReadResponse(http) ==
    IF http.kind = "Timeout" THEN Raise("Timeout")
    ELSE IF http.status >= 400 THEN Raise("HTTPError")
    ELSE IF ~http.json THEN Raise("JSONDecodeError")
    ELSE LET raw == get(http.body, "items", List(<<>>)).v IN
         Return(List([i \in 1..Len(raw) |-> SearchRecord(raw[i])]))

\* cached["items"] of a truthy cache entry
CachedItems(cached) ==
    IF HasKey(cached, "items") THEN Return(Item(cached, "items")) ELSE Raise("KeyError")

\* the test on the items instead of the entry
CacheHitNonEmpty(cached) == Truthy(cached) /\ Truthy(get(cached, "items", None))

\* if cached:
CacheHit(cached) == Truthy(cached)

\* fetch_search_results(query, num) at time t on the files, with http the
\* provider's answer to the request if one is made.  res is what the call
\* returns or raises, files the files after it, requests the GET requests made.
fetch_search_results(files, key, cx, query, num, t, http) ==
    IF Unconfigured(key) \/ Unconfigured(cx)
    THEN [res |-> Raise("ValueError"), files |-> files, requests |-> <<>>]
    ELSE LET cached == cache_get(files, query, t) IN
         IF cached.raised
         THEN [res |-> cached, files |-> files, requests |-> <<>>]
         ELSE IF CacheHit(cached.val)
         THEN [res |-> CachedItems(cached.val), files |-> files, requests |-> <<>>]
         ELSE LET got == ReadResponse(http)
                  req == <<RequestParams(key, cx, query, num)>>
              IN  IF got.raised
                  THEN [res |-> got, files |-> files, requests |-> req]
                  ELSE [res |-> got,
                        files |-> cache_set(files, query,
                                    Dict(<< <<"items", got.val>>,
                                            <<"fetched_at", Float(t)>> >>), t),
                        requests |-> req]

---------------------------------------------------------------------------
(* GeminiAgent.                                                            *)

\* GeminiAgent.__init__ raises ValueError for such a key
AgentInitFails(gemini_api_key) == gemini_api_key = <<>> \/ Contains(PASTE, gemini_api_key)

\* the line of item number i (from 1)
ContextLine(i, it) ==
    LET title == Take(Or(get(it, "title", None), Str(<<>>)).v, TITLE_CHARS)
        snippet == Take(Or(get(it, "snippet", None), Str(<<>>)).v, SNIPPET_CHARS)
        link == Or(get(it, "link", None), Str(<<>>)).v
    IN  <<"[">> \o IntStr(i) \o <<"]", " ">> \o title \o NEWLINE
            \o SNIPPET_LBL \o snippet \o NEWLINE
            \o URL_LBL \o link \o NEWLINE

\* build_context_from_search(search_items), search_items a sequence of records
build_context_from_search(search_items) ==
    join(NEWLINE, [i \in 1..Len(search_items) |-> ContextLine(i, search_items[i])])

\* The answer of the LLM provider to generate_content: the call raises e, or
\* gives a response with candidates (each with the name of its finish reason)
\* and a text (None when absent).
LLMRaises(e) == [raises |-> TRUE, e |-> e]
LLMResponse(candidates, text) ==
    [raises |-> FALSE, candidates |-> candidates, text |-> text]

\* _call_gemini with the test of the text before the tests of the finish reason
_call_gemini_text_first(user_message, llm) ==
    IF llm.raises THEN MSG_ERROR_PRE \o llm.e \o MSG_ERROR_POST
    ELSE IF llm.candidates = <<>> THEN MSG_NO_CANDIDATES
    ELSE LET finish_name == llm.candidates[1].finish_reason IN
         IF ~Truthy(llm.text) THEN MSG_NO_TEXT_PRE \o finish_name \o MSG_NO_TEXT_POST
         ELSE IF finish_name = SAFETY THEN MSG_SAFETY
         ELSE IF finish_name = RECITATION THEN MSG_RECITATION
         ELSE IF finish_name = MAX_OUTPUT_TOKENS THEN MSG_MAX_TOKENS
         ELSE strip(llm.text.v)

\* _call_gemini(user_message) when the provider answers llm
_call_gemini(user_message, llm) ==
    IF llm.raises THEN MSG_ERROR_PRE \o llm.e \o MSG_ERROR_POST
    ELSE IF llm.candidates = <<>> THEN MSG_NO_CANDIDATES
    ELSE LET finish_name == llm.candidates[1].finish_reason IN
         IF finish_name = SAFETY THEN MSG_SAFETY
         ELSE IF finish_name = RECITATION THEN MSG_RECITATION
         ELSE IF finish_name = MAX_OUTPUT_TOKENS THEN MSG_MAX_TOKENS
         ELSE IF ~Truthy(llm.text) THEN MSG_NO_TEXT_PRE \o finish_name \o MSG_NO_TEXT_POST
         ELSE strip(llm.text.v)

\* a variant of the grounding that treats a failed search as one with no result
GroundingFailureAsEmpty(use_search, search) ==
    IF ~use_search THEN <<>>
    ELSE IF ~search.raised /\ Truthy(search.val) THEN build_context_from_search(search.val.v)
    ELSE MSG_NO_RESULTS

\* the grounding text of ask_market, given what fetch_search_results did
Grounding(use_search, search) ==
    IF ~use_search THEN <<>>
    ELSE IF search.raised THEN MSG_SEARCH_FAILED
    ELSE IF Truthy(search.val) THEN build_context_from_search(search.val.v)
    ELSE MSG_NO_RESULTS

\* the user_message of ask_market
UserMessage(query, grounding) ==
    UM_QUERY \o query \o NEWLINE \o NEWLINE
        \o UM_USE
        \o grounding \o NEWLINE \o NEWLINE
        \o UM_FOLLOW

Skipped == [raised |-> FALSE, val |-> None, skipped |-> TRUE]

\* ask_market(query, use_search) up to the user_message (lines 129 to 149), at
\* time t on the files, with http the search provider's answer
Grounded(files, key, cx, query, use_search, t, http) ==
    LET fetched == IF use_search
                   THEN fetch_search_results(files, key, cx, query, SEARCH_RESULTS, t, http)
                   ELSE [res |-> Skipped, files |-> files, requests |-> <<>>]
        grounding == Grounding(use_search, fetched.res)
    IN  [query |-> query, use_search |-> use_search,
         search |-> fetched.res, requests |-> fetched.requests, files |-> fetched.files,
         grounding |-> grounding, user_message |-> UserMessage(query, grounding)]

\* the rest of ask_market (lines 151 to 153), with llm the LLM provider's answer
Answered(g, llm) ==
    [llm |-> llm, response_text |-> _call_gemini(g.user_message, llm)] @@ g

\* ask_market(query, use_search): everything the call computes and does
ask_market(files, key, cx, query, use_search, t, http, llm) ==
    Answered(Grounded(files, key, cx, query, use_search, t, http), llm)

---------------------------------------------------------------------------
(* app.py: the /analyze handler.                                           *)

\* the string cleaning of analyze (lines 36 to 43)
Clean(analysis_output) ==
    LET s0 == replace(analysis_output, BOLD, <<>>)
        s1 == replace(s0, HDR1, HDR1 \o NEWLINE)
        s2 == replace(s1, HDR2, HDR2 \o NEWLINE)
        s3 == replace(s2, HDR3, HDR3 \o NEWLINE)
        s4 == replace(s3, HDR4, HDR4 \o NEWLINE)
    IN  replace(s4, HDR5, HDR5 \o NEWLINE)

\* request.args.get('no-search', 'false').lower() not in ('true', 't', '1')
SearchUsed(no_search) ==
    lower(IF no_search.t = "None" THEN FALSE_WORD ELSE no_search.v) \notin NO_SEARCH_VALUES

\* request.args.get('q', 'Ghost Kitchen Market US Strategy')
QueryArg(q) == IF q.t = "None" THEN DEFAULT_QUERY ELSE q.v

---------------------------------------------------------------------------
(* The inputs the model draws.                                             *)

STOP == <<"STOP">>
MAX_TOKENS == <<"MAX_TOKENS">>
ERR_503 == <<"503 Service Unavailable">>
KEY_PLACEHOLDER ==
    <<"P","A","S","T","E","_","K","E","Y">>
KEY_VALID ==
    <<"k","1">>
TEXT_REPORT ==
    <<" ","*","*","1",")"," ","E","x","e","c","u","t","i","v","e"," ","S","u","m","m","a","r",
      "y","*","*","\n","o","k","\n">>

\* values of an API key in the environment: unset, the placeholder, a key
KeyValues == {<<>>, KEY_PLACEHOLDER, KEY_VALID}

Queries == {<<"a">>, DEFAULT_QUERY}

\* the q parameter of a request to /analyze: not given (None), or given
QueryArgs == {None, Str(DEFAULT_QUERY)}

\* the no-search parameter of a request to /analyze: not given (None), or given
NoSearchArgs == {None, Str(<<"T", "r", "u", "e">>)}

\* items of the search provider's answer: all fields, or some missing
ItemFull ==
    Dict(<< <<"kind", Str(<<"r">>)>>, <<"title", Str(<<"T">>)>>,
            <<"snippet", Str(<<"S">>)>>, <<"link", Str(<<"u">>)>> >>)
ItemLinkOnly == Dict(<< <<"link", Str(<<"v">>)>> >>)

\* JSON bodies of the search provider: no items key, no items, one, two
Bodies ==
    { Dict(<<>>),
      Dict(<< <<"items", List(<<>>)>> >>),
      Dict(<< <<"items", List(<<ItemFull>>)>> >>),
      Dict(<< <<"items", List(<<ItemLinkOnly, ItemFull>>)>> >>) }

HttpTimeout == [kind |-> "Timeout"]
HttpResponse(status, json, body) ==
    [kind |-> "Response", status |-> status, json |-> json, body |-> body]

\* what requests.get can do: time out, answer with an error status, answer 200
\* with a body that is not JSON, answer 200 with a JSON body
HttpOutcomes ==
    {HttpTimeout, HttpResponse(403, TRUE, Dict(<<>>)), HttpResponse(200, FALSE, None)}
        \cup {HttpResponse(200, TRUE, b) : b \in Bodies}

FinishNames == {STOP, SAFETY, RECITATION, MAX_OUTPUT_TOKENS, MAX_TOKENS}

\* response.text: absent, empty, only whitespace, a report
Texts == {None, Str(<<>>), Str(<<" ", "\n">>), Str(TEXT_REPORT)}

LLMOutcomes ==
    {LLMRaises(ERR_503), LLMResponse(<<>>, None)}
        \cup {LLMResponse(<<[finish_reason |-> f]>>, x) : f \in FinishNames, x \in Texts}

\* clock advances, in seconds
TickSteps == {1, 3599}

---------------------------------------------------------------------------
(* State.                                                                  *)

Paths == {_cache_key(q) : q \in Queries}

Nothing == [some |-> FALSE]
Stored(data, t) == [some |-> TRUE, data |-> data, at |-> t]

env == <<GEMINI_API_KEY, GOOGLE_API_KEY, GOOGLE_CX>>

\* an empty cache directory, time 0, nothing called yet
Fresh ==
    /\ fs = [p \in Paths |-> NoFile]
    /\ now = 0
    /\ ticks = 0
    /\ stored = [q \in Queries |-> Nothing]
    /\ obs = [op |-> "none"]

\* the clock advances by one of steps
TickBy(steps) ==
    /\ ticks < MaxTicks
    /\ \E d \in steps : now' = now + d
    /\ ticks' = ticks + 1
    /\ UNCHANGED <<env, fs, stored, obs, procs>>

Tick == TickBy(TickSteps)

---------------------------------------------------------------------------
(* Requests handled one at a time.                                         *)

Init ==
    /\ GEMINI_API_KEY \in KeyValues
    /\ GOOGLE_API_KEY \in KeyValues
    /\ GOOGLE_CX \in KeyValues
    /\ Fresh
    /\ procs = <<>>

\* the history of cache_set calls after the search g of a call at time now
StoredAfter(g) ==
    IF g.requests # <<>> /\ ~g.search.raised
    THEN [stored EXCEPT ![g.query] =
            Stored(Dict(<< <<"items", g.search.val>>, <<"fetched_at", Float(now)>> >>), now)]
    ELSE stored

\* what a call of ask_market was given and did
Observed(op, r) ==
    [op |-> op, at |-> now, query |-> r.query, use_search |-> r.use_search,
     search |-> r.search, requests |-> r.requests,
     grounding |-> r.grounding, user_message |-> r.user_message,
     llm |-> r.llm, response_text |-> r.response_text]

\* a GET request to /analyze
Analyze ==
    /\ IF AgentInitFails(GEMINI_API_KEY)
       THEN /\ obs' = [op |-> "analyze", at |-> now, status |-> 500]
            /\ UNCHANGED <<fs, stored>>
       ELSE \E q \in QueryArgs, no_search \in NoSearchArgs, http \in HttpOutcomes :
              \E g \in {Grounded(fs, GOOGLE_API_KEY, GOOGLE_CX, QueryArg(q),
                                  SearchUsed(no_search), now, http)} :
                 /\ fs' = g.files
                 /\ stored' = StoredAfter(g)
                 /\ \E llm \in LLMOutcomes :
                      \E r \in {Answered(g, llm)} :
                         obs' = [status |-> 200, analysis |-> Clean(r.response_text)]
                                   @@ Observed("analyze", r)
    /\ UNCHANGED <<env, now, ticks, procs>>

Next == Analyze

Spec == Init /\ [][Next]_vars

---------------------------------------------------------------------------
(* fetch_search_results called on its own, and the clock.                  *)

SearchInit ==
    /\ GEMINI_API_KEY = KEY_VALID
    /\ GOOGLE_API_KEY \in KeyValues
    /\ GOOGLE_CX \in KeyValues
    /\ Fresh
    /\ procs = <<>>

\* a call of fetch_search_results(query); before is the last cache_set for the
\* query when the call starts
Search ==
    /\ \E query \in Queries, http \in HttpOutcomes :
         \E f \in {fetch_search_results(fs, GOOGLE_API_KEY, GOOGLE_CX, query,
                                         SEARCH_RESULTS, now, http)} :
            /\ fs' = f.files
            /\ stored' = StoredAfter([query |-> query, search |-> f.res,
                                      requests |-> f.requests])
            /\ obs' = [op |-> "search", at |-> now, query |-> query,
                       before |-> stored[query], res |-> f.res, requests |-> f.requests]
    /\ UNCHANGED <<env, now, ticks, procs>>

SearchNext == Tick \/ Search

SearchSpec == SearchInit /\ [][SearchNext]_vars

---------------------------------------------------------------------------
(* cache_set and cache_get called on their own, and the clock.             *)

CacheInit ==
    /\ GEMINI_API_KEY = KEY_VALID
    /\ GOOGLE_API_KEY = KEY_VALID
    /\ GOOGLE_CX = KEY_VALID
    /\ Fresh
    /\ procs = <<>>

\* the lists of records fetch_search_results builds from the bodies
RecordLists ==
    {ReadResponse(HttpResponse(200, TRUE, b)).val : b \in Bodies}

\* a call of cache_set(q, data) with a result set fetched now
CacheSet ==
    /\ \E q \in Queries, items \in RecordLists :
         \E data \in {Dict(<< <<"items", items>>, <<"fetched_at", Float(now)>> >>)} :
            /\ fs' = cache_set(fs, q, data, now)
            /\ stored' = [stored EXCEPT ![q] = Stored(data, now)]
            /\ obs' = [op |-> "cache_set", at |-> now, query |-> q, data |-> data]
    /\ UNCHANGED <<env, now, ticks, procs>>

\* a call of cache_get(q); before is the last cache_set for q
CacheGet ==
    /\ \E q \in Queries :
         obs' = [op |-> "cache_get", at |-> now, query |-> q,
                 before |-> stored[q], res |-> cache_get(fs, q, now)]
    /\ UNCHANGED <<env, fs, now, ticks, stored, procs>>

CacheNext == Tick \/ CacheSet \/ CacheGet

CacheSpec == CacheInit /\ [][CacheNext]_vars

---------------------------------------------------------------------------
(* Concurrent calls of ask_market.  Each call is a process; a step is one  *)
(* access to the files of CACHE_DIR, or a call to a provider.              *)

Procs == {"p1", "p2"}

\* the calls race for the entry of one query
RaceQueries == {<<"a">>}

RaceHttpOutcomes ==
    { HttpTimeout, HttpResponse(403, TRUE, Dict(<<>>)),
      HttpResponse(200, TRUE, Dict(<< <<"items", List(<<ItemFull>>)>> >>)),
      HttpResponse(200, TRUE, Dict(<< <<"items", List(<<ItemLinkOnly, ItemFull>>)>> >>)) }

RaceLLMOutcomes ==
    {LLMRaises(ERR_503), LLMResponse(<<[finish_reason |-> STOP]>>, Str(TEXT_REPORT))}

\* between the steps of the calls time passes: here, enough for an entry to expire
Expire == TickBy({TTL})

\* a byte of a hole left by a write past the end of a file
NUL == Tok("NUL")

\* the content of a file after write(chunk) at offset pos
WriteAt(content, pos, chunk) ==
    LET padded == IF pos > Len(content)
                  THEN content \o [i \in 1..(pos - Len(content)) |-> NUL]
                  ELSE content
    IN  SubSeq(padded, 1, pos) \o chunk
            \o SubSeq(padded, pos + Len(chunk) + 1, Len(padded))

\* no call in progress
Idle == [pc |-> "idle"]

\* the locals of a call of ask_market(query, use_search) at its start: read is
\* the content that cache_get read, doc what cache_set is to write and pos how
\* much of it is written
Locals(query, use_search) ==
    [pc |-> "exists", query |-> query, use_search |-> use_search,
     search |-> Skipped, requests |-> <<>>, read |-> Nothing,
     doc |-> <<>>, pos |-> 0,
     grounding |-> <<>>, user_message |-> <<>>, llm |-> None, response_text |-> <<>>]

RaceInit ==
    /\ GEMINI_API_KEY = KEY_VALID
    /\ GOOGLE_API_KEY \in {KEY_PLACEHOLDER, KEY_VALID}
    /\ GOOGLE_CX = KEY_VALID
    /\ Fresh
    /\ procs = [p \in Procs |-> Idle]

\* the search of process p ends with res: on to the prompt
Found(p, res) == [procs[p] EXCEPT !.pc = "prompt", !.search = res]

\* lines 129 to 133, 48 and 49: the call starts; without search it goes on to
\* the prompt, and so it does when fetch_search_results raises at once
Start(p) ==
    /\ procs[p].pc = "idle"
    /\ \E query \in RaceQueries, use_search \in BOOLEAN :
         procs' = [procs EXCEPT ![p] =
            IF ~use_search
            THEN [Locals(query, use_search) EXCEPT !.pc = "prompt"]
            ELSE IF Unconfigured(GOOGLE_API_KEY) \/ Unconfigured(GOOGLE_CX)
            THEN [Locals(query, use_search) EXCEPT
                    !.pc = "prompt", !.search = Raise("ValueError")]
            ELSE Locals(query, use_search)]
    /\ UNCHANGED <<env, fs, now, ticks, stored, obs>>

\* line 29: os.path.exists(path)
Exists(p) ==
    /\ procs[p].pc = "exists"
    /\ procs' = [procs EXCEPT ![p].pc =
            IF fs[_cache_key(procs[p].query)].exists THEN "getmtime" ELSE "request"]
    /\ UNCHANGED <<env, fs, now, ticks, stored, obs>>

\* lines 30 and 31: the age of the file
GetMtime(p) ==
    /\ procs[p].pc = "getmtime"
    /\ procs' = [procs EXCEPT ![p].pc =
            IF now - fs[_cache_key(procs[p].query)].mtime < TTL THEN "load" ELSE "request"]
    /\ UNCHANGED <<env, fs, now, ticks, stored, obs>>

\* lines 32 and 33, 52 and 53: the file is read and parsed; a document that
\* does not parse raises, a truthy one is the cache hit
Load(p) ==
    /\ procs[p].pc = "load"
    /\ \E content \in {fs[_cache_key(procs[p].query)].content} :
         \E doc \in {loads(content)} :
            procs' = [procs EXCEPT ![p] =
                [(IF ~doc.ok THEN Found(p, Raise("JSONDecodeError"))
                  ELSE IF CacheHit(doc.val) THEN Found(p, CachedItems(doc.val))
                  ELSE [procs[p] EXCEPT !.pc = "request"])
                 EXCEPT !.read = [some |-> TRUE, content |-> content]]]
    /\ UNCHANGED <<env, fs, now, ticks, stored, obs>>

\* lines 55 to 66: the request and its answer; after a good answer the
\* document to store is ready
Request(p) ==
    /\ procs[p].pc = "request"
    /\ \E http \in RaceHttpOutcomes :
         \E got \in {ReadResponse(http)} :
            procs' = [procs EXCEPT ![p] =
                [(IF got.raised THEN Found(p, got)
                  ELSE [procs[p] EXCEPT
                          !.pc = "open", !.search = got,
                          !.doc = dumps(Dict(<< <<"items", got.val>>,
                                                <<"fetched_at", Float(now)>> >>))])
                 EXCEPT !.requests = <<RequestParams(GOOGLE_API_KEY, GOOGLE_CX,
                                                     procs[p].query, SEARCH_RESULTS)>>]]
    /\ UNCHANGED <<env, fs, now, ticks, stored, obs>>

\* line 39: open(path, "w") creates the file or cuts it to nothing
Open(p) ==
    /\ procs[p].pc = "open"
    /\ fs' = [fs EXCEPT ![_cache_key(procs[p].query)] = File(<<>>, now)]
    /\ procs' = [procs EXCEPT ![p].pc = "dump", ![p].pos = 0]
    /\ UNCHANGED <<env, now, ticks, stored, obs>>

\* line 40: json.dump fills the buffer of the file, which may be written out
\* before the end: here the first half of the document
Flush(p) ==
    /\ procs[p].pc = "dump"
    /\ procs[p].pos = 0
    /\ LET path == _cache_key(procs[p].query)
           half == Len(procs[p].doc) \div 2
       IN  /\ fs' = [fs EXCEPT ![path] =
                    File(WriteAt(fs[path].content, 0, SubSeq(procs[p].doc, 1, half)), now)]
           /\ procs' = [procs EXCEPT ![p].pos = half]
    /\ UNCHANGED <<env, now, ticks, stored, obs>>

\* the end of the with block: what is left of the document is written and the
\* file closed; fetch_search_results returns the items
Close(p) ==
    /\ procs[p].pc = "dump"
    /\ LET path == _cache_key(procs[p].query)
           rest == SubSeq(procs[p].doc, procs[p].pos + 1, Len(procs[p].doc))
       IN  fs' = [fs EXCEPT ![path] =
                    File(WriteAt(fs[path].content, procs[p].pos, rest), now)]
    /\ procs' = [procs EXCEPT ![p].pc = "prompt"]
    /\ UNCHANGED <<env, now, ticks, stored, obs>>

\* lines 134 to 153: the grounding, the prompt and the call of the LLM
Prompt(p) ==
    /\ procs[p].pc = "prompt"
    /\ \E llm \in RaceLLMOutcomes :
         \E grounding \in {Grounding(procs[p].use_search, procs[p].search)} :
            \E user_message \in {UserMessage(procs[p].query, grounding)} :
               procs' = [procs EXCEPT ![p] =
                   [procs[p] EXCEPT
                      !.pc = "done", !.grounding = grounding,
                      !.user_message = user_message, !.llm = llm,
                      !.response_text = _call_gemini(user_message, llm)]]
    /\ UNCHANGED <<env, fs, now, ticks, stored, obs>>

\* the call has returned; the process may serve another
Done(p) ==
    /\ procs[p].pc = "done"
    /\ procs' = [procs EXCEPT ![p] = Idle]
    /\ UNCHANGED <<env, fs, now, ticks, stored, obs>>

RaceNext ==
    \/ Expire
    \/ \E p \in Procs :
           \/ Start(p)
           \/ Exists(p)
           \/ GetMtime(p)
           \/ Load(p)
           \/ Request(p)
           \/ Open(p)
           \/ Flush(p)
           \/ Close(p)
           \/ Prompt(p)
           \/ Done(p)

RaceSpec == RaceInit /\ [][RaceNext]_vars

---------------------------------------------------------------------------
(* Properties of a request to /analyze (Spec).                             *)

\* the last call was a request that reached ask_market
Asked == obs.op = "analyze" /\ obs.status = 200

\* C1: whatever the search provider and the LLM provider do, ask_market returns
\* a non-empty string.
C1_NonEmptyResponse == Asked => obs.response_text # <<>>

\* the response has a first candidate
HasCandidate(llm) == ~llm.raises /\ llm.candidates # <<>>

\* rule k of the classification applies to the provider's answer
RuleApplies(k, llm) ==
    CASE k = 1 -> llm.raises
      [] k = 2 -> ~llm.raises /\ llm.candidates = <<>>
      [] k = 3 -> HasCandidate(llm) /\ llm.candidates[1].finish_reason = SAFETY
      [] k = 4 -> HasCandidate(llm) /\ llm.candidates[1].finish_reason = RECITATION
      [] k = 5 -> HasCandidate(llm) /\ llm.candidates[1].finish_reason = MAX_OUTPUT_TOKENS
      [] k = 6 -> HasCandidate(llm) /\ llm.text \in {None, Str(<<>>)}
      [] k = 7 -> TRUE

\* what rule k answers
RuleMessage(k, llm) ==
    CASE k = 1 -> MSG_ERROR_PRE \o llm.e \o MSG_ERROR_POST
      [] k = 2 -> MSG_NO_CANDIDATES
      [] k = 3 -> MSG_SAFETY
      [] k = 4 -> MSG_RECITATION
      [] k = 5 -> MSG_MAX_TOKENS
      [] k = 6 -> MSG_NO_TEXT_PRE \o llm.candidates[1].finish_reason \o MSG_NO_TEXT_POST
      [] k = 7 -> strip(llm.text.v)

FirstRule(llm) == SetMin({k \in 1..7 : RuleApplies(k, llm)})

\* C2: _call_gemini answers by the first rule that applies, in the order
\* exception, no candidates, SAFETY, RECITATION, MAX_OUTPUT_TOKENS, no text,
\* complete; so SAFETY with an empty text gives the safety message and
\* RECITATION with no text the recitation message.
C2_ClassificationOrder ==
    Asked => obs.response_text = RuleMessage(FirstRule(obs.llm), obs.llm)

\* a SAFETY stop with an empty text was answered with the safety message
C2_Witness ==
    /\ Asked
    /\ obs.llm = LLMResponse(<<[finish_reason |-> SAFETY]>>, Str(<<>>))
    /\ obs.response_text = MSG_SAFETY

\* C6: cleaning the cleaned text again changes nothing.
C6_CleanIdempotent == Asked => Clean(obs.analysis) = obs.analysis

\* the search of the last call gave no record
ZeroRecords == ~obs.search.raised /\ obs.search.val = List(<<>>)

\* C8: when the search is skipped or gives no record, the grounding text in
\* the prompt is not empty.
C8_GroundingNeverEmpty ==
    Asked /\ (~obs.use_search \/ ZeroRecords)
        => /\ obs.grounding # <<>>
           /\ obs.user_message = UserMessage(obs.query, obs.grounding)

---------------------------------------------------------------------------
(* Properties of fetch_search_results (SearchSpec).                        *)

Searched == obs.op = "search"

\* the key is not set, or is the placeholder
KeyMissing(key) == key \in {<<>>, KEY_PLACEHOLDER}

Configured == ~KeyMissing(GOOGLE_API_KEY) /\ ~KeyMissing(GOOGLE_CX)

\* C5: with a search credential missing or a placeholder, every call fails
\* with the configuration error and no request is ever made, so nothing is
\* ever cached.
C5_ConfigErrorBeforeNetwork ==
    ~Configured =>
        /\ \A p \in Paths : fs[p] = NoFile
        /\ Searched => obs.res = Raise("ValueError") /\ obs.requests = <<>>

C5_Witness ==
    /\ Searched
    /\ GOOGLE_API_KEY = KEY_VALID
    /\ GOOGLE_CX = KEY_PLACEHOLDER
    /\ obs.res = Raise("ValueError")

\* C9: the title, snippet and link of every record returned are strings.
C9_RecordFieldsAreStrings ==
    Searched /\ ~obs.res.raised =>
        \A i \in 1..Len(obs.res.val.v) :
            \A k \in {"title", "snippet", "link"} :
                get(obs.res.val.v[i], k, None).t = "str"

\* the entry a call at time t finds: the last cache_set, if younger than the TTL
FreshEntry(before, t) == before.some /\ t - before.at < TTL

\* C10: the cache file of a query is what the last successful request for it
\* stored; a call that finds a fresh entry returns its records, empty or not,
\* with no request; any other call makes exactly one request, and stores the
\* records if and only if the request succeeded.
C10_CacheBeforeNetwork ==
    /\ \A q \in Queries :
          fs[_cache_key(q)] =
              IF stored[q].some THEN File(dumps(stored[q].data), stored[q].at) ELSE NoFile
    /\ Searched /\ Configured =>
          IF FreshEntry(obs.before, obs.at)
          THEN /\ obs.res = Return(Item(obs.before.data, "items"))
               /\ obs.requests = <<>>
               /\ stored[obs.query] = obs.before
          ELSE /\ Len(obs.requests) = 1
               /\ stored[obs.query] =
                     IF obs.res.raised THEN obs.before
                     ELSE Stored(Dict(<< <<"items", obs.res.val>>,
                                         <<"fetched_at", Float(obs.at)>> >>), obs.at)

\* an empty result set stored 3599 s ago was served without a request
C10_Witness ==
    /\ Searched
    /\ obs.before.some
    /\ obs.at - obs.before.at = TTL - 1
    /\ obs.res = Return(List(<<>>))
    /\ obs.requests = <<>>

---------------------------------------------------------------------------
(* Properties of the cache (CacheSpec).                                    *)

\* C3: cache_get(q) returns the data of the last cache_set(q, .) while it is
\* younger than 3600 s, at once after the cache_set too, and None when there
\* was no cache_set for q or it is 3600 s old or older.
C3_CacheRoundTrip ==
    obs.op = "cache_get" =>
        obs.res = Return(IF FreshEntry(obs.before, obs.at) THEN obs.before.data ELSE None)

\* cache_get right after cache_set returned the records, a None field included
C3_Witness ==
    /\ obs.op = "cache_get"
    /\ obs.before.some
    /\ obs.at = obs.before.at
    /\ Len(Item(obs.before.data, "items").v) = 2
    /\ obs.res = Return(obs.before.data)


---------------------------------------------------------------------------
(* Properties of concurrent calls (RaceSpec).                              *)

\* a document as one cache_set writes it: it parses, it is written as it
\* parses, and it holds a list of items and the time they were fetched
CompleteEntry(content) ==
    LET d == loads(content)
    IN  /\ d.ok
        /\ dumps(d.val) = content
        /\ d.val.t = "dict"
        /\ HasKey(d.val, "items")
        /\ HasKey(d.val, "fetched_at")
        /\ Item(d.val, "items").t = "list"

\* C7: a call that reads the cache entry of a query while other calls for the
\* same query run reads a complete document, one that a single cache_set wrote
C7_ConcurrentReadsComplete ==
    \A p \in DOMAIN procs :
        (procs[p].pc # "idle" /\ procs[p].read.some) => CompleteEntry(procs[p].read.content)

\* a call of process p has returned after a search that raised
SearchFailed(p) ==
    /\ procs[p].pc = "done"
    /\ procs[p].use_search
    /\ procs[p].search.raised

\* C4: when the search raises, whatever the error, the grounding is the
\* search-failed message, the prompt carries it, and the LLM is still called
\* and its classified answer returned
C4_SearchFailureDegrades ==
    \A p \in DOMAIN procs :
        SearchFailed(p) =>
            /\ procs[p].grounding = MSG_SEARCH_FAILED
            /\ procs[p].user_message = UserMessage(procs[p].query, MSG_SEARCH_FAILED)
            /\ procs[p].llm \in RaceLLMOutcomes
            /\ procs[p].response_text =
                    RuleMessage(FirstRule(procs[p].llm), procs[p].llm)

\* a call returned after it found a cache entry it could not parse, and made
\* no request
C4_Witness ==
    \E p \in DOMAIN procs :
        /\ SearchFailed(p)
        /\ procs[p].search = Raise("JSONDecodeError")
        /\ procs[p].requests = <<>>
        /\ procs[p].response_text = strip(TEXT_REPORT)

=============================================================================
